---- MODULE Spec2Model ----
(***************************************************************************)
(* Subsequence automata with default transitions (KIV-PRO).                *)
(*                                                                         *)
(* The module models the three automaton classes of src/src:               *)
(*   GeneralAutomaton, LevelAutomaton (parameter k) and                    *)
(*   AlphabetAwareLevelAutomaton,                                          *)
(* their constructors (the backward table-building pass and the level      *)
(* generation), the evaluation loop Compute and the statistics GetInfo     *)
(* inherited from SubsequenceAutomaton.                                    *)
(*                                                                         *)
(* Conventions.  A Python dict is a TLA+ function whose DOMAIN is the set  *)
(* of keys.  Symbols are one-character strings; the default transition is  *)
(* stored under the key "def", as in the source.  A Python list indexed    *)
(* 0..n is a function on 0..n.  A Python str is a sequence of symbols, so  *)
(* string[i] of the source is string[i + 1] here.                          *)
(***************************************************************************)
EXTENDS Integers, Sequences, FiniteSets, TLC

VARIABLES
    pc,               \* "new" | "building" | "ready" | "failed" | "computing"
    variant,          \* "none" | "General" | "Level" | "AlphabetAware"
    alphabet,         \* self._alphabet
    originalString,   \* self._originalString
    k,                \* self._k (LevelAutomaton only, 0 otherwise)
    levels,           \* self._levels, a function on 0..n (<<>> when unset)
    transitionTable,  \* self._transitionTable, a function on 0..n
    loop_i,           \* loop variable i (s) of the constructor's backward pass
    nearestLevelPos,  \* constructor local nearestLevelPos
    nearestCharPos,   \* constructor local nearestCharPos (nearest in General)
    error,            \* exception raised by the last call, "none" if none
    inputStr,         \* argument of the running / last Compute call
    idx,              \* 1-based index of the query symbol being processed
    activeState,      \* local activeState / state of Compute
    hops,             \* transitions followed so far for the symbol at idx
    delay,            \* transitions followed for the last finished symbol
    result,           \* "none" | "true" | "false": value returned by Compute
    info              \* record returned by GetInfo, when it was the last call

vars == << pc, variant, alphabet, originalString, k, levels, transitionTable,
           loop_i, nearestLevelPos, nearestCharPos,
           error, inputStr, idx, activeState, hops, delay, result, info >>

autoVars == << variant, alphabet, originalString, k, levels, transitionTable >>
buildVars == << loop_i, nearestLevelPos, nearestCharPos >>
runVars == << inputStr, idx, activeState, hops, delay, result >>

(***************************************************************************)
(* Bounds of the model.                                                    *)
(***************************************************************************)
MaxLen == 5          \* longest reference string of the small inputs
MaxQueryLen == 2     \* longest query
StringSymbols == {"a", "b"}      \* symbols of the small reference strings
Symbols == {"a", "b", "c"}       \* symbols of alphabets and queries
KValues == {0, 1, 2, 3}          \* values of k of the small inputs

RECURSIVE StringsUpTo(_, _)
StringsUpTo(syms, n) ==
    IF n = 0 THEN {<<>>}
    ELSE LET shorter == StringsUpTo(syms, n - 1)
         IN  shorter \cup {Append(s, c) : s \in {t \in shorter : Len(t) = n - 1},
                                          c \in syms}

Alphabets == SUBSET Symbols
Strings == StringsUpTo(StringSymbols, MaxLen)
Queries == StringsUpTo(Symbols, MaxQueryLen)

\* One large input next to the small ones: an alphabet of 125 symbols, the
\* string b^625 c b and k = 5, the smallest sizes at which the double
\* precision quotient log(125) / log(5) = 3.0000000000000004 differs from
\* the exact logarithm and a state (625) is divisible by 5^4.
BigAlphabet == Symbols \cup {ToString(i) : i \in 4..125}
BigString == [i \in 1..627 |-> IF i = 626 THEN "c" ELSE "b"]

LevelInputs ==
    (Alphabets \X Strings \X KValues) \cup {<<BigAlphabet, BigString, 5>>}

(***************************************************************************)
(* Python dict helpers.                                                    *)
(***************************************************************************)
EmptyDict == [x \in {} |-> 0]

DictSet(d, key, v) ==
    [x \in (DOMAIN d) \cup {key} |-> IF x = key THEN v ELSE d[x]]

Reverse(seq) == [i \in 1..Len(seq) |-> seq[Len(seq) + 1 - i]]

ListToArray(seq) == [s \in 0..(Len(seq) - 1) |-> seq[s + 1]]

(***************************************************************************)
(* math.log / math.ceil as the constructors use them.                      *)
(*                                                                         *)
(* math.log(x, base) evaluates log(x) / log(base) in double precision: it  *)
(* raises ValueError when x <= 0 or base <= 0 and ZeroDivisionError when   *)
(* base = 1 (log(1) = 0.0).  For 1 <= x < 2000 and 2 <= base < 60 the      *)
(* ceiling of the quotient equals the exact ceil(log_base x) except for    *)
(* the pairs of FloatLogAbove, where x is an exact power base^m and the    *)
(* quotient is rounded to m + 4.4e-16, so that ceil yields m + 1.          *)
(***************************************************************************)
\* faulty variant: ceil(log(..)) guarded by "if sigma > 1 else 0", as in the
\* alphabet-aware class, so that no logarithm is taken for sigma = 1
LogRaisesGuarded(x, base) ==
    IF x = 1 THEN "none"
    ELSE IF x <= 0 \/ base <= 0 THEN "ValueError"
    ELSE IF base = 1 THEN "ZeroDivisionError"
    ELSE "none"

LogRaises(x, base) ==
    IF x <= 0 \/ base <= 0 THEN "ValueError"
    ELSE IF base = 1 THEN "ZeroDivisionError"
    ELSE "none"

RECURSIVE CeilLogFrom(_, _, _, _)
CeilLogFrom(x, base, e, power) ==
    IF power >= x THEN e ELSE CeilLogFrom(x, base, e + 1, power * base)

\* exact ceil(log_base x) for x >= 1, base >= 2
CeilLogExact(x, base) == CeilLogFrom(x, base, 0, 1)

FloatLogAbove == { <<125, 5>>, <<216, 6>> }

\* ceil(log(x, base)) of LevelAutomaton, x >= 1 and base >= 2
CeilLog(x, base) ==
    CeilLogExact(x, base) + (IF <<x, base>> \in FloatLogAbove THEN 1 ELSE 0)

\* ceil(log2(sigma)) if sigma > 1 else 0 of AlphabetAwareLevelAutomaton
CeilLog2(sigma) == IF sigma > 1 THEN CeilLogExact(sigma, 2) ELSE 0

(***************************************************************************)
(* _generateLevels: level(0) = 0 and, for i in 1..n, the while loop that   *)
(* raises lvl while lvl + 1 <= Lmax and power divides i.                   *)
(***************************************************************************)
RECURSIVE LevelLoop(_, _, _, _, _)
LevelLoop(i, base, Lmax, lvl, power) ==
    IF lvl + 1 <= Lmax /\ i % power = 0
    THEN LevelLoop(i, base, Lmax, lvl + 1, power * base)
    ELSE lvl

GenerateLevels(n, base, Lmax) ==
    [i \in 0..n |-> IF i = 0 THEN 0 ELSE LevelLoop(i, base, Lmax, 0, base)]

(***************************************************************************)
(* The body of the backward pass of LevelAutomaton and                     *)
(* AlphabetAwareLevelAutomaton.                                            *)
(***************************************************************************)
SetMin(S) == CHOOSE m \in S : \A x \in S : m <= x

\* faulty variant: the scan starts at the state's own level
NextLevelStateFromOwn(n, lvl, Lmax, nlp) ==
    SetMin({n + 1} \cup {nlp[L] : L \in lvl..Lmax})

\* the scan over L in lvl+1..Lmax that keeps the smallest nearestLevelPos[L]
NextLevelState(n, lvl, Lmax, nlp) ==
    SetMin({n + 1} \cup {nlp[L] : L \in (lvl + 1)..Lmax})

\* table = {}; if next_level_state <= n: table["def"] = next_level_state
DefaultEntry(n, next_level_state) ==
    IF next_level_state <= n
    THEN DictSet(EmptyDict, "def", next_level_state)
    ELSE EmptyDict

\* table[c] = pos for every c of keys (written after the default entry)
WithRegular(table, keys, ncp) ==
    [x \in (DOMAIN table) \cup keys |-> IF x \in keys THEN ncp[x] ELSE table[x]]

\* faulty variant: the occurrence at position n is admitted
LevelIncludesUpToN(pos, next_level_state, n) ==
    pos <= next_level_state /\ pos <= n

\* LevelAutomaton: if pos <= next_level_state and pos < n
LevelIncludes(pos, next_level_state, n) ==
    pos <= next_level_state /\ pos < n

LevelRow(n, next_level_state, ncp) ==
    WithRegular(DefaultEntry(n, next_level_state),
                {c \in DOMAIN ncp : LevelIncludes(ncp[c], next_level_state, n)},
                ncp)

\* faulty variant: an occurrence at the next level state itself is left out
AlphabetAwareIncludesBelow(pos, next_level_state, n) ==
    1 <= pos /\ pos <= n /\ pos < next_level_state

\* AlphabetAwareLevelAutomaton: if 1 <= pos <= n and pos <= next_level_state
AlphabetAwareIncludes(pos, next_level_state, n) ==
    1 <= pos /\ pos <= n /\ pos <= next_level_state

\* faulty variant: the dense branch records every symbol that occurs after s
AlphabetAwareRowDenseAll(alph, n, s, next_level_state, ncp) ==
    LET span == next_level_state - s
        keys == IF span >= Cardinality(alph)
                THEN {c \in alph : 1 <= ncp[c] /\ ncp[c] <= n}
                ELSE {c \in DOMAIN ncp :
                        AlphabetAwareIncludes(ncp[c], next_level_state, n)}
    IN  WithRegular(DefaultEntry(n, next_level_state), keys, ncp)

\* span >= sigma: "for c in alphabet"; else "for c, pos in nearestCharPos.items()"
AlphabetAwareRow(alph, n, s, next_level_state, ncp) ==
    LET span == next_level_state - s
        keys == IF span >= Cardinality(alph)
                THEN {c \in alph :
                        AlphabetAwareIncludes(ncp[c], next_level_state, n)}
                ELSE {c \in DOMAIN ncp :
                        AlphabetAwareIncludes(ncp[c], next_level_state, n)}
    IN  WithRegular(DefaultEntry(n, next_level_state), keys, ncp)

\* Lmax as each constructor computes it (for a built automaton)
LmaxOf(kind, sigma, base) ==
    IF kind = "Level" THEN CeilLog(sigma, base)
    ELSE IF kind = "AlphabetAware" THEN CeilLog2(sigma)
    ELSE 0

\* The table LevelAutomaton(alph, string, base) builds (the constructor does
\* not raise), row by row: when the backward loop reaches state s,
\* nearestLevelPos[L] is the nearest state after s with level L and
\* nearestCharPos[c] the nearest occurrence of c after s, n + 1 for none;
\* nearestCharPos has a key for every symbol of the alphabet and for every
\* symbol of string[s+1..n].
LevelTable(alph, string, base) ==
    LET n == Len(string)
        Lmax == LmaxOf("Level", Cardinality(alph), base)
        lv == GenerateLevels(n, base, Lmax)
        nlp(s) == [L \in 0..Lmax |->
                     SetMin({n + 1} \cup {t \in (s + 1)..n : lv[t] = L})]
        ncp(s) == [c \in alph \cup {string[t] : t \in (s + 1)..n} |->
                     SetMin({n + 1} \cup {t \in (s + 1)..n : string[t] = c})]
    IN  [s \in 0..n |->
            LevelRow(n, NextLevelState(n, lv[s], Lmax, nlp(s)), ncp(s))]

(***************************************************************************)
(* State before any object exists.                                         *)
(***************************************************************************)
None == 0   \* nearest[c] = None: no occurrence seen yet (positions are 1..n)

NoInfo ==
    [ vertexCount |-> 0, edgeCount |-> 0, defaultTranstions |-> 0,
      explicitTransitions |-> 0,
      defaultRatio |-> <<0, 1>>, explicitRatio |-> <<0, 1>>,
      savedAgainstFull |-> <<0, 1>> ]

Init ==
    /\ pc = "new"
    /\ variant = "none"
    /\ alphabet = {}
    /\ originalString = <<>>
    /\ k = 0
    /\ levels = <<>>
    /\ transitionTable = <<>>
    /\ loop_i = 0
    /\ nearestLevelPos = <<>>
    /\ nearestCharPos = <<>>
    /\ error = "none"
    /\ inputStr = <<>>
    /\ idx = 0
    /\ activeState = 0
    /\ hops = 0
    /\ delay = 0
    /\ result = "none"
    /\ info = NoInfo

\* the constructor returns: its locals are dropped
Built ==
    /\ pc' = "ready"
    /\ loop_i' = 0
    /\ nearestLevelPos' = <<>>
    /\ nearestCharPos' = <<>>

(***************************************************************************)
(* GeneralAutomaton.__init__: the statements before the loop, then one     *)
(* action per iteration of "for i in range(n - 1, -1, -1)".                *)
(***************************************************************************)
ConstructGeneral(alph, string) ==
    /\ pc = "new"
    /\ variant' = "General"
    /\ alphabet' = alph
    /\ originalString' = string
    /\ transitionTable' = [s \in 0..Len(string) |-> EmptyDict]
    /\ IF Len(string) = 0
       THEN Built
       ELSE /\ pc' = "building"
            /\ loop_i' = Len(string) - 1
            /\ nearestCharPos' = [c \in alph |-> None]
            /\ UNCHANGED nearestLevelPos
    /\ UNCHANGED << k, levels, error, runVars, info >>

\* faulty variant: the test "pos is not None" is missing
GeneralRowAll(nearest) == [c \in DOMAIN nearest |-> nearest[c]]

\* the snapshot of nearest written to state i: every c with pos is not None
GeneralRow(nearest) ==
    [c \in {x \in DOMAIN nearest : nearest[x] # None} |-> nearest[c]]

GeneralLoopStep ==
    /\ pc = "building"
    /\ variant = "General"
    /\ LET nearest == DictSet(nearestCharPos, originalString[loop_i + 1], loop_i + 1)
       IN  /\ transitionTable' = [transitionTable EXCEPT ![loop_i] = GeneralRow(nearest)]
           /\ IF loop_i = 0
              THEN Built
              ELSE /\ loop_i' = loop_i - 1
                   /\ nearestCharPos' = nearest
                   /\ UNCHANGED << pc, nearestLevelPos >>
    /\ UNCHANGED << variant, alphabet, originalString, k, levels,
                    error, runVars, info >>

(***************************************************************************)
(* LevelAutomaton.__init__ and AlphabetAwareLevelAutomaton.__init__: the   *)
(* statements before the loop (field assignment, _generateLevels, Lmax,    *)
(* the trackers), then one action per iteration of                         *)
(* "for i in range(n, -1, -1)"; the last iteration is followed by          *)
(* self._transitionTable.reverse().                                        *)
(***************************************************************************)
\* ceil(log(len(alphabet), k)) of _generateLevels may raise
ConstructLevel(alph, string, base) ==
    /\ pc = "new"
    /\ variant' = "Level"
    /\ alphabet' = alph
    /\ originalString' = string
    /\ k' = base
    /\ transitionTable' = <<>>
    /\ LET raised == LogRaises(Cardinality(alph), base)
           n == Len(string)
       IN  IF raised # "none"
           THEN /\ error' = raised
                /\ pc' = "failed"
                /\ UNCHANGED << levels, buildVars >>
           ELSE LET Lmax == LmaxOf("Level", Cardinality(alph), base)
                IN  /\ levels' = GenerateLevels(n, base, Lmax)
                    /\ nearestLevelPos' = [L \in 0..Lmax |-> n + 1]
                    /\ nearestCharPos' = [c \in alph |-> n + 1]
                    /\ loop_i' = n
                    /\ pc' = "building"
                    /\ UNCHANGED error
    /\ UNCHANGED << runVars, info >>

ConstructAlphabetAware(alph, string) ==
    /\ pc = "new"
    /\ variant' = "AlphabetAware"
    /\ alphabet' = alph
    /\ originalString' = string
    /\ transitionTable' = <<>>
    /\ LET Lmax == LmaxOf("AlphabetAware", Cardinality(alph), 2)
           n == Len(string)
       IN  /\ levels' = GenerateLevels(n, 2, Lmax)
           /\ nearestLevelPos' = [L \in 0..Lmax |-> n + 1]
           /\ nearestCharPos' = [c \in alph |-> n + 1]
           /\ loop_i' = n
    /\ pc' = "building"
    /\ UNCHANGED << k, error, runVars, info >>

\* what follows the row of state i: append, tracker updates, final reverse
AfterRow(row) ==
    LET lvl == levels[loop_i]
        appended == Append(transitionTable, row)
    IN  IF loop_i = 0
        THEN /\ transitionTable' = ListToArray(Reverse(appended))
             /\ Built
        ELSE /\ transitionTable' = appended
             /\ nearestLevelPos' = [nearestLevelPos EXCEPT ![lvl] = loop_i]
             /\ nearestCharPos' = DictSet(nearestCharPos, originalString[loop_i], loop_i)
             /\ loop_i' = loop_i - 1
             /\ UNCHANGED pc

LevelLoopStep ==
    /\ pc = "building"
    /\ variant = "Level"
    /\ LET n == Len(originalString)
           Lmax == LmaxOf("Level", Cardinality(alphabet), k)
           next_level_state == NextLevelState(n, levels[loop_i], Lmax, nearestLevelPos)
       IN  AfterRow(LevelRow(n, next_level_state, nearestCharPos))
    /\ UNCHANGED << variant, alphabet, originalString, k, levels,
                    error, runVars, info >>

AlphabetAwareLoopStep ==
    /\ pc = "building"
    /\ variant = "AlphabetAware"
    /\ LET n == Len(originalString)
           Lmax == LmaxOf("AlphabetAware", Cardinality(alphabet), 2)
           next_level_state == NextLevelState(n, levels[loop_i], Lmax, nearestLevelPos)
       IN  AfterRow(AlphabetAwareRow(alphabet, n, loop_i, next_level_state,
                                     nearestCharPos))
    /\ UNCHANGED << variant, alphabet, originalString, k, levels,
                    error, runVars, info >>

(***************************************************************************)
(* Compute(inputStr).  ComputeCall enters the method; ComputeStep is one   *)
(* iteration of the inner "while True" loop, together with the head of the *)
(* "for" loop (end of input, alphabet test) when a new symbol is started,  *)
(* and with the return that follows the last symbol.  GeneralAutomaton has *)
(* no inner loop: a missing entry rejects at once.                         *)
(***************************************************************************)
\* faulty variant: no alphabet test
InAlphabetAlways(char, alph) == TRUE

\* "char not in self._alphabet" negated: the symbol may be looked up
InAlphabet(char, alph) == char \in alph

ComputeCall(q) ==
    /\ pc = "ready"
    /\ pc' = "computing"
    /\ inputStr' = q
    /\ idx' = 1
    /\ activeState' = 0
    /\ hops' = 0
    /\ delay' = 0
    /\ result' = "none"
    /\ error' = "none"
    /\ info' = NoInfo
    /\ UNCHANGED << autoVars, buildVars >>

Return(value) ==
    /\ result' = value
    /\ pc' = "ready"

ComputeStep ==
    /\ pc = "computing"
    /\ UNCHANGED << autoVars, buildVars, error, info, inputStr >>
    /\ IF idx > Len(inputStr)
       THEN \* the for loop is exhausted (only for the empty query here)
            /\ Return("true")
            /\ UNCHANGED << idx, activeState, hops, delay >>
       ELSE
         LET char == inputStr[idx]
             table == transitionTable[activeState]
         IN  IF hops = 0 /\ ~InAlphabet(char, alphabet)
             THEN /\ Return("false")
                  /\ UNCHANGED << idx, activeState, hops, delay >>
             ELSE IF char \in DOMAIN table
             THEN \* regular transition found
                  /\ activeState' = table[char]
                  /\ delay' = hops + 1
                  /\ hops' = 0
                  /\ idx' = idx + 1
                  /\ IF idx = Len(inputStr)
                     THEN Return("true")
                     ELSE UNCHANGED << pc, result >>
             ELSE IF variant # "General" /\ "def" \in DOMAIN table
             THEN \* follow the default transition and retry the symbol
                  /\ activeState' = table["def"]
                  /\ hops' = hops + 1
                  /\ UNCHANGED << idx, delay, pc, result >>
             ELSE \* no regular, no default
                  /\ Return("false")
                  /\ delay' = hops
                  /\ UNCHANGED << idx, activeState, hops >>

(***************************************************************************)
(* GetInfo.  The loop over self._transitionTable accumulates the four      *)
(* counters; the three divisions follow.  A ratio a / b is kept as the     *)
(* pair <<a, b>>; a zero divisor raises ZeroDivisionError.  result, info   *)
(* and error describe the outcome of the most recent call only, so GetInfo *)
(* clears what the last Compute call left behind (and ComputeCall clears   *)
(* info).                                                                  *)
(***************************************************************************)
\* faulty variant: the default entry is counted as explicit too
VertexCountsNoDefault(vertex) ==
    LET keys == Cardinality(DOMAIN vertex)
        hasDef == "def" \in DOMAIN vertex
    IN  [ vertexCount   |-> 1,
          edgeCount     |-> keys,
          defaultCount  |-> IF hasDef THEN 1 ELSE 0,
          explicitCount |-> keys ]

\* what one vertex adds to the four counters
VertexCounts(vertex) ==
    LET keys == Cardinality(DOMAIN vertex)
        hasDef == "def" \in DOMAIN vertex
    IN  [ vertexCount   |-> 1,
          edgeCount     |-> keys,
          defaultCount  |-> IF hasDef THEN 1 ELSE 0,
          explicitCount |-> IF hasDef THEN keys - 1 ELSE keys ]

\* the counters after the vertices lo..hi (the range is halved so that the
\* depth of the evaluation stays logarithmic in the number of states)
RECURSIVE CountRange(_, _, _)
CountRange(table, lo, hi) ==
    IF lo > hi
    THEN [ vertexCount |-> 0, edgeCount |-> 0, defaultCount |-> 0,
           explicitCount |-> 0 ]
    ELSE IF lo = hi THEN VertexCounts(table[lo])
    ELSE LET mid == (lo + hi) \div 2
             a == CountRange(table, lo, mid)
             b == CountRange(table, mid + 1, hi)
         IN  [ vertexCount   |-> a.vertexCount + b.vertexCount,
               edgeCount     |-> a.edgeCount + b.edgeCount,
               defaultCount  |-> a.defaultCount + b.defaultCount,
               explicitCount |-> a.explicitCount + b.explicitCount ]

Counters(table) == CountRange(table, 0, Cardinality(DOMAIN table) - 1)

\* the divisors of the three divisions, in evaluation order
InfoRaises(c, sigma) ==
    IF c.edgeCount = 0 \/ (c.vertexCount + 1) * sigma = 0
    THEN "ZeroDivisionError"
    ELSE "none"

AutomatonData(c, sigma) ==
    LET full == (c.vertexCount + 1) * sigma
    IN  [ vertexCount         |-> c.vertexCount,
          edgeCount           |-> c.edgeCount,
          defaultTranstions   |-> c.defaultCount,
          explicitTransitions |-> c.explicitCount,
          defaultRatio        |-> << c.defaultCount, c.edgeCount >>,
          explicitRatio       |-> << c.explicitCount, c.edgeCount >>,
          savedAgainstFull    |-> << full - c.edgeCount, full >> ]

\* faulty variant: the loop removes the default entry of each vertex it counts
GetInfoPopsDefault ==
    /\ pc = "ready"
    /\ transitionTable' =
          [s \in DOMAIN transitionTable |->
              [x \in DOMAIN transitionTable[s] \ {"def"} |->
                  transitionTable[s][x]]]
    /\ UNCHANGED << pc, variant, alphabet, originalString, k, levels,
                    buildVars, runVars, error, info >>

GetInfo ==
    /\ pc = "ready"
    /\ LET c == Counters(transitionTable)
           raised == InfoRaises(c, Cardinality(alphabet))
       IN  /\ error' = raised
           /\ info' = IF raised = "none"
                      THEN AutomatonData(c, Cardinality(alphabet))
                      ELSE NoInfo
    /\ inputStr' = <<>>
    /\ idx' = 0
    /\ activeState' = 0
    /\ hops' = 0
    /\ delay' = 0
    /\ result' = "none"
    /\ UNCHANGED << pc, autoVars, buildVars >>

(***************************************************************************)
(* Specification.                                                          *)
(***************************************************************************)
Next ==
    \/ /\ pc = "new"
       /\ \E alph \in Alphabets, string \in Strings :
             ConstructGeneral(alph, string)
    \/ /\ pc = "new"
       /\ \E in \in LevelInputs : ConstructLevel(in[1], in[2], in[3])
    \/ /\ pc = "new"
       /\ \E alph \in Alphabets, string \in Strings :
             ConstructAlphabetAware(alph, string)
    \/ GeneralLoopStep
    \/ LevelLoopStep
    \/ AlphabetAwareLoopStep
    \/ /\ pc = "ready"
       /\ \E q \in Queries : ComputeCall(q)
    \/ ComputeStep
    \/ GetInfo

Spec == Init /\ [][Next]_vars

(***************************************************************************)
(* Notions the properties are stated with.                                 *)
(***************************************************************************)
SymbolsOf(string) == {string[j] : j \in 1..Len(string)}

\* positions of string after p that carry symbol c
Occurrences(string, p, c) == {t \in (p + 1)..Len(string) : string[t] = c}

\* q[j..] can be matched in string strictly after position p
RECURSIVE MatchesFrom(_, _, _, _)
MatchesFrom(q, j, string, p) ==
    IF j > Len(q) THEN TRUE
    ELSE LET occ == Occurrences(string, p, q[j])
         IN  occ # {} /\ MatchesFrom(q, j + 1, string, SetMin(occ))

\* q is obtained from string by deleting zero or more symbols
IsSubsequence(q, string) == MatchesFrom(q, 1, string, 0)

\* the run of the classic automaton, whose transition on c from state s goes
\* to the smallest t > s with S[t] = c: what GeneralAutomaton(alph, string)
\* returns for q
RECURSIVE GeneralRun(_, _, _, _, _)
GeneralRun(alph, string, q, j, state) ==
    IF j > Len(q) THEN "true"
    ELSE IF q[j] \notin alph THEN "false"
    ELSE LET occ == Occurrences(string, state, q[j])
         IN  IF occ = {} THEN "false"
             ELSE GeneralRun(alph, string, q, j + 1, SetMin(occ))

\* Lmax of the specification: exact ceil(log_base sigma), 0 when sigma <= 1
SpecLmax(kind, sigma, base) ==
    IF kind = "General" \/ sigma <= 1 THEN 0
    ELSE CeilLogExact(sigma, IF kind = "Level" THEN base ELSE 2)

RECURSIVE Pow(_, _)
Pow(base, x) == IF x = 0 THEN 1 ELSE base * Pow(base, x - 1)

\* the largest x with s mod base^x = 0, for s >= 1 and base >= 2
Valuation(s, base) ==
    CHOOSE x \in 0..CeilLogExact(s + 1, base) :
        /\ s % Pow(base, x) = 0
        /\ s % Pow(base, x + 1) # 0

MinOf(a, b) == IF a <= b THEN a ELSE b

Returned == pc = "ready" /\ result # "none"
N == Len(originalString)
Sigma == Cardinality(alphabet)
Base == IF variant = "Level" THEN k ELSE 2

(***************************************************************************)
(* C1.  Whenever the alphabet contains every symbol of S and the query is  *)
(* over the alphabet, Compute(q) returns true exactly when q is a          *)
(* subsequence of S (every variant, every k >= 2).                         *)
(***************************************************************************)
C1_ComputeDecidesSubsequence ==
    ( /\ Returned
      /\ SymbolsOf(originalString) \subseteq alphabet
      /\ SymbolsOf(inputStr) \subseteq alphabet )
    => (result = "true" <=> IsSubsequence(inputStr, originalString))

(***************************************************************************)
(* C2.  The value Compute(q) returns is the value the General automaton    *)
(* built from the same alphabet and string returns for q, whatever the     *)
(* variant: the three automata agree.                                      *)
(***************************************************************************)
C2_VariantsAgree ==
    Returned => result = GeneralRun(alphabet, originalString, inputStr, 1, 0)

(***************************************************************************)
(* C3.  While Compute processes one query symbol it follows at most        *)
(* Lmax + 1 transitions, Lmax = ceil(log_k sigma) (0 for sigma <= 1 and    *)
(* for General): at most Lmax default hops, then the explicit transition   *)
(* or the rejection.                                                       *)
(***************************************************************************)
C3_DelayBound ==
    pc \in {"computing", "ready"} =>
        /\ hops <= SpecLmax(variant, Sigma, Base)
        /\ delay <= SpecLmax(variant, Sigma, Base) + 1

(***************************************************************************)
(* C4.  A query with a symbol outside the alphabet is rejected, without    *)
(* an error, also when the symbol occurs in S.                             *)
(***************************************************************************)
C4_OutOfAlphabetRejected ==
    (Returned /\ ~(SymbolsOf(inputStr) \subseteq alphabet))
    => (result = "false" /\ error = "none")

C4_Witness ==
    /\ Returned
    /\ result = "false"
    /\ idx > 1
    /\ inputStr[idx] \notin alphabet
    /\ inputStr[idx] \in SymbolsOf(originalString)

(***************************************************************************)
(* C5.  LevelAutomaton with k <= 1 and a non-empty alphabet fails in the   *)
(* constructor: an exception is raised and no table and no levels exist.   *)
(***************************************************************************)
C5_SmallKFails ==
    (variant = "Level" /\ k <= 1 /\ alphabet # {})
    => /\ pc = "failed"
       /\ error \in {"ValueError", "ZeroDivisionError"}
       /\ transitionTable = <<>>
       /\ levels = <<>>

C5_Witness ==
    /\ variant = "Level"
    /\ k = 1
    /\ alphabet # {}
    /\ originalString # <<>>
    /\ pc = "failed"

(***************************************************************************)
(* C6.  Every variant fails in the constructor when the alphabet is empty. *)
(***************************************************************************)
C6_EmptyAlphabetFails ==
    (variant # "none" /\ alphabet = {}) => pc = "failed"

(***************************************************************************)
(* C7.  GetInfo on a constructed automaton (non-empty alphabet) whose      *)
(* table has no edges does not end in a division by zero.                  *)
(***************************************************************************)
C7_GetInfoNoDivisionFault ==
    ( /\ pc = "ready"
      /\ alphabet # {}
      /\ Counters(transitionTable).edgeCount = 0 )
    => error # "ZeroDivisionError"

(***************************************************************************)
(* C8.  A record returned by GetInfo has vertexCount = n + 1, default and  *)
(* explicit counts between 0 and edgeCount that add up to edgeCount, and   *)
(* ratios in [0, 1] that add up to 1.                                      *)
(***************************************************************************)
InfoReturned == pc = "ready" /\ info # NoInfo

C8_StatisticsSanity ==
    InfoReturned =>
        LET d == info.defaultRatio
            e == info.explicitRatio
        IN  /\ info.vertexCount = N + 1
            /\ info.defaultTranstions + info.explicitTransitions = info.edgeCount
            /\ 0 <= info.defaultTranstions
            /\ info.defaultTranstions <= info.edgeCount
            /\ 0 <= info.explicitTransitions
            /\ info.explicitTransitions <= info.edgeCount
            /\ info.edgeCount > 0
            /\ 0 <= d[1] /\ d[1] <= d[2]
            /\ 0 <= e[1] /\ e[1] <= e[2]
            /\ d[1] * e[2] + e[1] * d[2] = d[2] * e[2]

C8_Witness ==
    /\ InfoReturned
    /\ info.defaultTranstions > 1
    /\ info.explicitTransitions > info.defaultTranstions

(***************************************************************************)
(* C9.  Level assignment of LevelAutomaton and of the alphabet-aware       *)
(* automaton: level(0) = 0, 0 <= level(s) <= Lmax, and for s >= 1          *)
(* level(s) = min(Lmax, largest x with s mod k^x = 0), where               *)
(* Lmax = ceil(log_k sigma), 0 when sigma <= 1.                            *)
(***************************************************************************)
C9_LevelAssignment ==
    (pc \in {"building", "ready", "computing"} /\ variant # "General")
    => LET Lmax == SpecLmax(variant, Sigma, Base)
       IN  /\ DOMAIN levels = 0..N
           /\ levels[0] = 0
           /\ \A s \in 1..N :
                 /\ 0 <= levels[s] /\ levels[s] <= Lmax
                 /\ levels[s] = MinOf(Lmax, Valuation(s, Base))

(***************************************************************************)
(* C10.  The General table: for every state s and every c of the alphabet, *)
(* table[s] has an entry for c exactly when c occurs in S after s, and the *)
(* entry is the smallest such position; state n has no transition, no      *)
(* state has a default entry; for S = aba over {a, b} the table is          *)
(* {a->1, b->2}, {a->3, b->2}, {a->3}, {} with 4 vertices and 5 edges.     *)
(***************************************************************************)
AbaTable ==
    ListToArray(<< ("a" :> 1 @@ "b" :> 2), ("a" :> 3 @@ "b" :> 2),
                   ("a" :> 3), EmptyDict >>)

C10_GeneralTable ==
    (pc \in {"ready", "computing"} /\ variant = "General")
    => /\ DOMAIN transitionTable = 0..N
       /\ \A s \in 0..N :
             /\ "def" \notin DOMAIN transitionTable[s]
             /\ \A c \in alphabet :
                   LET occ == Occurrences(originalString, s, c)
                   IN  /\ c \in DOMAIN transitionTable[s] <=> occ # {}
                       /\ occ # {} => transitionTable[s][c] = SetMin(occ)
       /\ transitionTable[N] = EmptyDict
       /\ (originalString = <<"a", "b", "a">> /\ alphabet = {"a", "b"})
          => /\ transitionTable = AbaTable
             /\ info # NoInfo => (info.vertexCount = 4 /\ info.edgeCount = 5)

C10_Witness ==
    /\ pc = "ready"
    /\ variant = "General"
    /\ originalString = <<"a", "b", "a">>
    /\ alphabet = {"a", "b"}
    /\ info.edgeCount = 5

(***************************************************************************)
(* Notions for the tables with default transitions.                        *)
(***************************************************************************)
Leveled == pc \in {"ready", "computing"} /\ variant \in {"Level", "AlphabetAware"}

\* some state after s has a level strictly higher than the level of s
HasHigherAfter(s) == \E t \in (s + 1)..N : levels[t] > levels[s]

\* nextLevelState(s): the nearest such state, n + 1 when there is none
NextHigher(s) ==
    IF HasHigherAfter(s)
    THEN CHOOSE t \in (s + 1)..N :
            /\ levels[t] > levels[s]
            /\ \A u \in (s + 1)..(t - 1) : levels[u] <= levels[s]
    ELSE N + 1

(***************************************************************************)
(* C11.  In the Level-k and the alphabet-aware table, state s has a        *)
(* default entry exactly when some state t, s < t <= n, has a level        *)
(* strictly higher than s; the entry is then the smallest such t, so its   *)
(* target has a strictly higher level than s, and state n has no default   *)
(* entry.                                                                  *)
(***************************************************************************)
C11_DefaultEntries ==
    Leveled =>
        /\ DOMAIN transitionTable = 0..N
        /\ \A s \in 0..N :
              LET row == transitionTable[s]
              IN  /\ "def" \in DOMAIN row <=> HasHigherAfter(s)
                  /\ "def" \in DOMAIN row =>
                        /\ row["def"] = NextHigher(s)
                        /\ levels[row["def"]] > levels[s]
        /\ "def" \notin DOMAIN transitionTable[N]

\* a table where one default entry goes to the next state and another one
\* skips states, and a state below n without a default entry
C11_Witness ==
    /\ Leveled
    /\ \E s \in 0..N : "def" \in DOMAIN transitionTable[s]
                          /\ transitionTable[s]["def"] = s + 1
    /\ \E s \in 0..N : "def" \in DOMAIN transitionTable[s]
                          /\ transitionTable[s]["def"] > s + 1
    /\ \E s \in 0..(N - 1) : "def" \notin DOMAIN transitionTable[s]

\* c occurs in S at one of the positions s+1..hi
OccursWithin(s, c, hi) == \E t \in (s + 1)..hi : originalString[t] = c

\* the nearest of these occurrences
NearestWithin(s, c, hi) ==
    CHOOSE t \in (s + 1)..hi :
        /\ originalString[t] = c
        /\ \A u \in (s + 1)..(t - 1) : originalString[u] # c

\* the nearest occurrence of c strictly after s, n + 1 when there is none
NearestAfter(s, c) ==
    IF OccursWithin(s, c, N) THEN NearestWithin(s, c, N) ELSE N + 1

(***************************************************************************)
(* C12.  In the Level-k table, for every state s and every c of the        *)
(* alphabet: table[s] has an explicit entry for c exactly when the nearest *)
(* occurrence pos of c strictly after s has pos <= nextLevelState(s) and   *)
(* pos < n, that is, when c occurs at one of the positions                 *)
(* s+1..min(nextLevelState(s), n-1); the entry is pos.  No explicit entry  *)
(* of a Level-k table goes to state n.                                     *)
(***************************************************************************)
C12_LevelExplicitEntries ==
    (Leveled /\ variant = "Level") =>
        LET inS == SymbolsOf(originalString)
        IN  \A s \in 0..N :
              LET row == transitionTable[s]
                  hi == MinOf(NextHigher(s), N - 1)
              IN  /\ (DOMAIN row \cap alphabet) \subseteq inS
                  /\ \A c \in inS \cap alphabet :
                        /\ c \in DOMAIN row <=> OccursWithin(s, c, hi)
                        /\ c \in DOMAIN row =>
                              row[c] = NearestWithin(s, c, hi)
                  /\ \A c \in DOMAIN row \ {"def"} : row[c] # N

\* a state with three symbols: one recorded, one beyond the next level state
\* and one whose nearest occurrence is position n, within the next level state
C12_Witness ==
    /\ Leveled /\ variant = "Level"
    /\ \E s \in 0..N :
          LET row == transitionTable[s]
          IN  /\ \E c \in alphabet : c \in DOMAIN row
              /\ \E c \in alphabet : /\ c \notin DOMAIN row
                                       /\ NearestAfter(s, c) = N
                                       /\ N <= NextHigher(s)
    /\ \E s \in 0..N :
          \E c \in alphabet :
              /\ c \notin DOMAIN transitionTable[s]
              /\ NearestAfter(s, c) < N
              /\ NearestAfter(s, c) > NextHigher(s)

(***************************************************************************)
(* C13.  Once constructed, the automaton is read-only: no step of Compute  *)
(* and no call of GetInfo, whatever the query and whether the call         *)
(* accepts, rejects or fails, changes the transition table, the levels,    *)
(* the alphabet, the reference string or k.  Each Compute call starts from *)
(* state 0 with fresh locals, so its result depends on the query only.     *)
(***************************************************************************)
ReadOnlyStep ==
    pc \in {"ready", "computing"} =>
        /\ UNCHANGED autoVars
        /\ (pc = "ready" /\ pc' = "computing") =>
              (idx' = 1 /\ activeState' = 0 /\ hops' = 0 /\ result' = "none")

C13_ReadOnlyAfterConstruction == [][ReadOnlyStep]_vars

\* a query was rejected after default hops, on a table with default entries
C13_Witness ==
    /\ Returned
    /\ result = "false"
    /\ delay > 1
    /\ \E s \in 0..N : "def" \in DOMAIN transitionTable[s]

\* the state of the leftmost embedding of q[1..j] in string: the position
\* of q[j] when every symbol is matched at its nearest occurrence after the
\* previous one, -1 when q[1..j] is not a subsequence
RECURSIVE LeftmostState(_, _, _)
LeftmostState(q, j, string) ==
    IF j = 0 THEN 0
    ELSE LET p == LeftmostState(q, j - 1, string)
             occ == IF p = -1 THEN {} ELSE Occurrences(string, p, q[j])
         IN  IF occ = {} THEN -1 ELSE SetMin(occ)

(***************************************************************************)
(* C14.  No variant accepts a query that is not a subsequence of S, for    *)
(* any alphabet, string and k >= 2: whenever Compute has consumed the      *)
(* first j symbols of the query (no default hop pending), the current      *)
(* state is the position reached by matching each of them at its nearest   *)
(* occurrence after the previous one, so the default hops taken before a   *)
(* symbol was consumed did not pass its nearest occurrence; and a query    *)
(* that was accepted is a subsequence of S.                                *)
(***************************************************************************)
C14_NoFalsePositives ==
    (pc \in {"computing", "ready"} /\ idx >= 1) =>
        /\ hops = 0 =>
              activeState = LeftmostState(inputStr, idx - 1, originalString)
        /\ result = "true" =>
              /\ idx = Len(inputStr) + 1
              /\ IsSubsequence(inputStr, originalString)

\* a query of two symbols accepted by an automaton with default transitions,
\* the last symbol after more than one default hop
C14_Witness ==
    /\ Returned
    /\ result = "true"
    /\ variant # "General"
    /\ Len(inputStr) = 2
    /\ delay > 2

(***************************************************************************)
(* C15.  The alphabet-aware table when the alphabet contains every symbol  *)
(* of S: in every state s, whether the span nextLevelState(s) - s reaches  *)
(* sigma (dense branch) or not (sparse branch), the explicit entries are   *)
(* exactly the symbols c whose nearest occurrence pos after s has          *)
(* 1 <= pos <= n and pos <= nextLevelState(s), with target pos.  Hence the *)
(* table is the table LevelAutomaton builds for k = 2 (it exists for a     *)
(* non-empty alphabet) plus the explicit entries into state n, which       *)
(* LevelAutomaton leaves out.                                              *)
(***************************************************************************)
\* LevelTable is the table the stepwise constructor leaves behind (checked on
\* the strings up to the length bound)
LevelTableIsBuilt ==
    (Leveled /\ variant = "Level" /\ N <= MaxLen + 1)
    => transitionTable = LevelTable(alphabet, originalString, k)

AlphabetAwareCovering ==
    /\ pc \in {"ready", "computing"}
    /\ variant = "AlphabetAware"
    /\ SymbolsOf(originalString) \subseteq alphabet

\* the symbols whose nearest occurrence after s is position n, not beyond
\* the next level state
IntoTerminal(s) ==
    {c \in alphabet : NearestAfter(s, c) = N /\ N <= NextHigher(s)}

====
